---- MODULE Spec2Model ----
(***************************************************************************)
(* A model of the Cloud Datastore policy adapter (adapter.go).             *)
(*                                                                         *)
(* Go strings are sequences of one-character strings, so that trimming,    *)
(* emptiness and comma-joining are computed and not assumed.               *)
(***************************************************************************)
EXTENDS Integers, Sequences, FiniteSets, TLC

VARIABLES
    phase,      \* position of the codec / filter-mapper run
    cin,        \* its input: (ptype, rule) or (ptype, fieldIndex, fieldValues)
    line,       \* the CasbinRule built by savePolicyLine
    name,       \* line.String()
    loaded,     \* what loadPolicyLine appended: [sec, key, tokens]
    selector,   \* the selector map built by RemoveFilteredPolicy
    store,      \* the Datastore: a set of entities [key, props]
    lastOp,     \* the adapter call that returned last, with its arguments
    nops,       \* the number of adapter calls made
    calls,      \* the concurrent SavePolicy calls: position, model, fetched keys
    store0      \* the store before the concurrent calls began

pureVars == <<phase, cin, line, name, loaded, selector>>

storeVars == <<store, lastOp, nops>>

concVars == <<calls, store0>>

vars == <<phase, cin, line, name, loaded, selector, store, lastOp, nops, calls, store0>>

-----------------------------------------------------------------------------
(* Strings *)

Str(c) == <<c>>

EmptyStr == <<>>

IsSpace(c) == c = " "

RECURSIVE TrimLeft(_)
TrimLeft(s) ==
    IF s # <<>> /\ IsSpace(Head(s)) THEN TrimLeft(Tail(s)) ELSE s

RECURSIVE TrimRight(_)
TrimRight(s) ==
    IF s # <<>> /\ IsSpace(s[Len(s)]) THEN TrimRight(SubSeq(s, 1, Len(s) - 1)) ELSE s

\* strings.TrimSpace
TrimSpace(s) == TrimRight(TrimLeft(s))

-----------------------------------------------------------------------------
(* CasbinRule and its codec *)

\* the number of value slots V0..V5 of a CasbinRule
NumSlots == 6

Nil == [nil |-> TRUE]

CasbinRule(ptype, v0, v1, v2, v3, v4, v5) ==
    [PType |-> ptype, V0 |-> v0, V1 |-> v1, V2 |-> v2, V3 |-> v3, V4 |-> v4, V5 |-> v5]

NoLine == CasbinRule(EmptyStr, EmptyStr, EmptyStr, EmptyStr, EmptyStr, EmptyStr, EmptyStr)

\* the closure appendOrTerminate of CasbinRule.String
appendOrTerminate(currentStr, strToAdd) ==
    LET tmp == TrimSpace(strToAdd) IN
    IF tmp = EmptyStr
    THEN [res |-> currentStr, added |-> FALSE]
    ELSE IF currentStr = EmptyStr
         THEN [res |-> tmp, added |-> TRUE]
         ELSE [res |-> currentStr \o <<",">> \o tmp, added |-> TRUE]

\* CasbinRule.String: the CSV form of the rule, used as the key name
String(cr) ==
    LET r0 == appendOrTerminate(EmptyStr, cr.PType) IN
    IF ~r0.added THEN r0.res ELSE
    LET r1 == appendOrTerminate(r0.res, cr.V0) IN
    IF ~r1.added THEN r1.res ELSE
    LET r2 == appendOrTerminate(r1.res, cr.V1) IN
    IF ~r2.added THEN r2.res ELSE
    LET r3 == appendOrTerminate(r2.res, cr.V2) IN
    IF ~r3.added THEN r3.res ELSE
    LET r4 == appendOrTerminate(r3.res, cr.V3) IN
    IF ~r4.added THEN r4.res ELSE
    LET r5 == appendOrTerminate(r4.res, cr.V4) IN
    IF ~r5.added THEN r5.res ELSE
    appendOrTerminate(r5.res, cr.V5).res

\* savePolicyLine with its last slot never filled (len(rule) > 6 for > 5)
savePolicyLineDropLast(ptype, rule) ==
    CasbinRule(ptype,
        IF Len(rule) > 0 THEN rule[1] ELSE EmptyStr,
        IF Len(rule) > 1 THEN rule[2] ELSE EmptyStr,
        IF Len(rule) > 2 THEN rule[3] ELSE EmptyStr,
        IF Len(rule) > 3 THEN rule[4] ELSE EmptyStr,
        IF Len(rule) > 4 THEN rule[5] ELSE EmptyStr,
        IF Len(rule) > 6 THEN rule[6] ELSE EmptyStr)

\* savePolicyLine: rule[i] of Go is rule[i+1] here
savePolicyLine(ptype, rule) ==
    CasbinRule(ptype,
        IF Len(rule) > 0 THEN rule[1] ELSE EmptyStr,
        IF Len(rule) > 1 THEN rule[2] ELSE EmptyStr,
        IF Len(rule) > 2 THEN rule[3] ELSE EmptyStr,
        IF Len(rule) > 3 THEN rule[4] ELSE EmptyStr,
        IF Len(rule) > 4 THEN rule[5] ELSE EmptyStr,
        IF Len(rule) > 5 THEN rule[6] ELSE EmptyStr)

\* the tokens loadPolicyLine collects before LineEnd
lineTokens(ln) ==
    IF ln.V0 = EmptyStr THEN <<>> ELSE
    IF ln.V1 = EmptyStr THEN <<ln.V0>> ELSE
    IF ln.V2 = EmptyStr THEN <<ln.V0, ln.V1>> ELSE
    IF ln.V3 = EmptyStr THEN <<ln.V0, ln.V1, ln.V2>> ELSE
    IF ln.V4 = EmptyStr THEN <<ln.V0, ln.V1, ln.V2, ln.V3>> ELSE
    IF ln.V5 = EmptyStr THEN <<ln.V0, ln.V1, ln.V2, ln.V3, ln.V4>> ELSE
    <<ln.V0, ln.V1, ln.V2, ln.V3, ln.V4, ln.V5>>

\* loadPolicyLine: the rule appended to model[sec][key].Policy
loadPolicyLine(ln) ==
    [sec |-> SubSeq(ln.PType, 1, 1), key |-> ln.PType, tokens |-> lineTokens(ln)]

NoLoaded == [sec |-> EmptyStr, key |-> EmptyStr, tokens |-> <<>>]

-----------------------------------------------------------------------------
(* The selector of RemoveFilteredPolicy *)

\* what an index expression outside 0..len-1 yields in Go: a run-time panic
Panic == <<"panic">>

\* fieldValues[i] of Go
valueAt(fieldValues, i) ==
    IF 0 <= i /\ i < Len(fieldValues) THEN fieldValues[i + 1] ELSE Panic

\* a block whose upper test is off by one (p <= fieldIndex+len(fieldValues))
selectorSlotOffByOne(p, fieldIndex, fieldValues) ==
    IF fieldIndex <= p /\ p <= fieldIndex + Len(fieldValues)
    THEN [reads |-> {p - fieldIndex},
          set   |-> valueAt(fieldValues, p - fieldIndex) # EmptyStr,
          val   |-> valueAt(fieldValues, p - fieldIndex)]
    ELSE [reads |-> {}, set |-> FALSE, val |-> EmptyStr]

\* one "if fieldIndex <= p && p < fieldIndex+len(fieldValues)" block:
\* the indices read and the entry added to the selector
selectorSlot(p, fieldIndex, fieldValues) ==
    IF fieldIndex <= p /\ p < fieldIndex + Len(fieldValues)
    THEN [reads |-> {p - fieldIndex},
          set   |-> valueAt(fieldValues, p - fieldIndex) # EmptyStr,
          val   |-> valueAt(fieldValues, p - fieldIndex)]
    ELSE [reads |-> {}, set |-> FALSE, val |-> EmptyStr]

\* the selector map after the six blocks: "ptype", the slots v0..v5 (numbered
\* 0..5) that were set, and every index of fieldValues that was read
buildSelector(ptype, fieldIndex, fieldValues) ==
    LET s == <<selectorSlot(0, fieldIndex, fieldValues),
               selectorSlot(1, fieldIndex, fieldValues),
               selectorSlot(2, fieldIndex, fieldValues),
               selectorSlot(3, fieldIndex, fieldValues),
               selectorSlot(4, fieldIndex, fieldValues),
               selectorSlot(5, fieldIndex, fieldValues)>> IN
    [ptype |-> ptype,
     v     |-> [p \in {q \in 0..5 : s[q + 1].set} |-> s[p + 1].val],
     reads |-> UNION {s[p + 1].reads : p \in 0..5}]

-----------------------------------------------------------------------------
(* Configuration and keys *)

casbinKind == <<"c", "a", "s", "b", "i", "n">>

\* NewAdapterWithConfig: an empty or blank Kind becomes casbinKind (the
\* deadlines play no part in what is stored)
NewAdapterWithConfig(config) ==
    [config |-> [Kind      |-> IF TrimSpace(config.Kind) = EmptyStr
                               THEN casbinKind ELSE config.Kind,
                 Namespace |-> config.Namespace]]

\* datastore.IDKey and datastore.NameKey: the new key's Namespace is empty
IDKey(kind, id, parent) ==
    [Kind |-> kind, ID |-> id, Name |-> EmptyStr, Namespace |-> EmptyStr, Parent |-> parent]

NameKey(kind, nm, parent) ==
    [Kind |-> kind, ID |-> 0, Name |-> nm, Namespace |-> EmptyStr, Parent |-> parent]

pseudoRootKey(a) ==
    [IDKey(a.config.Kind, 1, Nil) EXCEPT !.Namespace = a.config.Namespace]

\* a key whose name counts the entities stored so far: no longer a function of
\* the record alone
putKeyCounting(a, ln, st) ==
    [NameKey(a.config.Kind, String(ln) \o <<",">> \o [i \in 1..Cardinality(st) |-> "#"],
             pseudoRootKey(a))
        EXCEPT !.Namespace = a.config.Namespace]

\* the key SavePolicy and AddPolicy put a line under (st is the store, which
\* the key does not depend on)
putKey(a, ln, st) ==
    [NameKey(a.config.Kind, String(ln), pseudoRootKey(a))
        EXCEPT !.Namespace = a.config.Namespace]

\* the key RemovePolicy deletes: its Namespace is left as NameKey made it
removeKey(a, ln) ==
    NameKey(a.config.Kind, String(ln), pseudoRootKey(a))

-----------------------------------------------------------------------------
(* The Datastore service, as the adapter uses it.  The service names an     *)
(* entity by one namespace and a path of (kind, id or name) elements.       *)

RECURSIVE keyPath(_)
keyPath(k) ==
    IF k.Parent = Nil
    THEN <<[Kind |-> k.Kind, ID |-> k.ID, Name |-> k.Name]>>
    ELSE Append(keyPath(k.Parent), [Kind |-> k.Kind, ID |-> k.ID, Name |-> k.Name])

RECURSIVE rootNamespace(_)
rootNamespace(k) == IF k.Parent = Nil THEN k.Namespace ELSE rootNamespace(k.Parent)

\* a key is valid only if it shares its namespace with all its ancestors
RECURSIVE validKey(_)
validKey(k) ==
    k.Parent = Nil \/ (k.Parent.Namespace = k.Namespace /\ validKey(k.Parent))

\* How a key reaches the service.  A valid key has one namespace.  For a key
\* whose Namespace differs from its ancestor's the adapter's source does not
\* fix the outcome: the client may send it under the key's own namespace
\* ("leaf"), under the ancestor's ("root"), or refuse it ("reject").
keyOutcomes(k) == IF validKey(k) THEN {"valid"} ELSE {"leaf", "root", "reject"}

wireKey(k, outcome) ==
    [Namespace |-> IF outcome = "root" THEN rootNamespace(k) ELSE k.Namespace,
     Path      |-> keyPath(k)]

IsPrefix(s, t) == Len(s) <= Len(t) /\ SubSeq(t, 1, Len(s)) = s

\* slot p (0..5) of a record
slot(cr, p) ==
    CASE p = 0 -> cr.V0
      [] p = 1 -> cr.V1
      [] p = 2 -> cr.V2
      [] p = 3 -> cr.V3
      [] p = 4 -> cr.V4
      [] OTHER -> cr.V5

NoSelector == [ptype |-> EmptyStr, v |-> <<>>, reads |-> {}]

\* newQuery: kind, namespace, the filter ptype > "" and the ancestor
newQuery(a) ==
    [Kind |-> a.config.Kind, Namespace |-> a.config.Namespace,
     Ancestor |-> pseudoRootKey(a), filtered |-> FALSE, selector |-> NoSelector]

\* query.Filter("<k> =", v) for every entry of the selector
withSelector(q, sel) == [q EXCEPT !.filtered = TRUE, !.selector = sel]

queryMatches(q, e) ==
    /\ e.key.Namespace = q.Namespace
    /\ e.key.Path[Len(e.key.Path)].Kind = q.Kind
    /\ IsPrefix(keyPath(q.Ancestor), e.key.Path)
    /\ e.props.PType # EmptyStr
    /\ q.filtered =>
          /\ e.props.PType = q.selector.ptype
          /\ \A p \in DOMAIN q.selector.v : slot(e.props, p) = q.selector.v[p]

\* db.GetAll: the entities a query returns (in an order the adapter does not
\* rely on)
GetAll(st, q) == {e \in st : queryMatches(q, e)}

upsert(k, cr) == [op |-> "upsert", key |-> k, props |-> cr]

delete(k) == [op |-> "delete", key |-> k, props |-> NoLine]

applyMutation(st, m) ==
    IF m.op = "delete"
    THEN {e \in st : e.key # m.key}
    ELSE {e \in st : e.key # m.key} \cup {[key |-> m.key, props |-> m.props]}

RECURSIVE applyMutations(_, _)
applyMutations(st, ms) ==
    IF ms = <<>> THEN st ELSE applyMutations(applyMutation(st, Head(ms)), Tail(ms))

RECURSIVE deleteMutations(_)
deleteMutations(keys) ==
    IF keys = {} THEN <<>>
    ELSE LET k == CHOOSE x \in keys : TRUE IN
         <<delete(k)>> \o deleteMutations(keys \ {k})

\* a transaction that applies what its function buffered even when it failed
RunInTransactionNoRollback(st, buffered, failed) == applyMutations(st, buffered)

\* db.RunInTransaction: the buffered mutations are committed together, or,
\* when the function or the commit fails, not at all
RunInTransaction(st, buffered, failed) ==
    IF failed THEN st ELSE applyMutations(st, buffered)

-----------------------------------------------------------------------------
(* The adapter's operations *)

\* the records of an adapter's partition: what its newQuery returns
Partition(a, st) == GetAll(st, newQuery(a))

\* LoadPolicy: loadPolicyLine on every record of the partition; the bag of
\* the rules appended to the model
LoadPolicy(a, st) ==
    LET got == GetAll(st, newQuery(a))
        rules == {loadPolicyLine(e.props) : e \in got} IN
    [r \in rules |-> Cardinality({e \in got : loadPolicyLine(e.props) = r})]

\* SavePolicy dropping no existing key
saveKeysNone(a, st) == {}

\* the keys SavePolicy fetches to drop (keys-only GetAll)
saveKeys(a, st) == {e.key : e \in GetAll(st, newQuery(a))}

\* the lines SavePolicy builds from model["p"] and model["g"]
saveLines(model) ==
    [i \in 1..Len(model.p) |-> savePolicyLine(Str("p"), model.p[i])]
    \o [i \in 1..Len(model.g) |-> savePolicyLine(Str("g"), model.g[i])]

\* what SavePolicy's transaction function has buffered after DeleteMulti and
\* its first n puts
saveBuffered(a, keys, lines, n, st) ==
    deleteMutations(keys)
    \o [i \in 1..n |-> upsert(wireKey(putKey(a, lines[i], st), "valid"), lines[i])]

\* the store after SavePolicy(model), with a fault at: "getall" the keys-only
\* fetch, "delete" tx.DeleteMulti, "put" the n-th tx.Put, "commit" the commit
SavePolicy(a, model, fault, n, st) ==
    LET keys  == saveKeys(a, st)
        lines == saveLines(model)
        buffered ==
            CASE fault = "delete" -> <<>>
              [] fault = "put"    -> saveBuffered(a, keys, lines, n - 1, st)
              [] OTHER            -> saveBuffered(a, keys, lines, Len(lines), st) IN
    IF fault = "getall" THEN st
    ELSE RunInTransaction(st, buffered, fault # "none")

\* the store after AddPolicy: one db.Put
AddPolicy(a, ptype, rule, fault, st) ==
    LET ln == savePolicyLine(ptype, rule) IN
    IF fault # "none" THEN st
    ELSE applyMutation(st, upsert(wireKey(putKey(a, ln, st), "valid"), ln))

\* a RemovePolicy that drops every record of the partition
RemovePolicyOfPartition(a, ptype, rule, fault, outcome, st) ==
    IF fault # "none" \/ outcome = "reject" THEN st
    ELSE applyMutations(st, deleteMutations(saveKeys(a, st)))

\* the store after RemovePolicy: one db.Delete
RemovePolicy(a, ptype, rule, fault, outcome, st) ==
    LET ln == savePolicyLine(ptype, rule) IN
    IF fault # "none" \/ outcome = "reject" THEN st
    ELSE applyMutation(st, delete(wireKey(removeKey(a, ln), outcome)))

\* the entities RemoveFilteredPolicy's query returns
filteredMatches(a, ptype, fieldIndex, fieldValues, st) ==
    GetAll(st, withSelector(newQuery(a), buildSelector(ptype, fieldIndex, fieldValues)))

\* the store after RemoveFilteredPolicy.  Faults: "getall" the fetch fails;
\* "notfound" the fetch reports ErrNoSuchEntity (when nothing matches);
\* "delete" DeleteMulti fails, having deleted the keys in done (the batch is
\* not transactional)
RemoveFilteredPolicy(a, ptype, fieldIndex, fieldValues, fault, done, st) ==
    LET keys == {e.key : e \in filteredMatches(a, ptype, fieldIndex, fieldValues, st)} IN
    CASE fault = "none"   -> applyMutations(st, deleteMutations(keys))
      [] fault = "delete" -> applyMutations(st, deleteMutations(done))
      [] OTHER            -> st

\* the error of db.GetAll under a fault
getAllErr(fault) ==
    CASE fault = "notfound" -> "ErrNoSuchEntity"
      [] fault = "getall"   -> "error"
      [] OTHER              -> "nil"

\* RemoveFilteredPolicy handing every error of the fetch to its caller
removeFilteredPolicyErrUnmapped(fault) ==
    IF getAllErr(fault) # "nil" THEN getAllErr(fault)
    ELSE IF fault = "delete" THEN "error" ELSE "nil"

\* the error RemoveFilteredPolicy returns: of the fetch's errors
\* ErrNoSuchEntity becomes nil and any other is returned; without one, the
\* error of DeleteMulti
removeFilteredPolicyErr(fault) ==
    LET err == getAllErr(fault) IN
    IF err # "nil"
    THEN (IF err = "ErrNoSuchEntity" THEN "nil" ELSE err)
    ELSE (IF fault = "delete" THEN "error" ELSE "nil")

-----------------------------------------------------------------------------
(* The adapters in use and the calls made on them *)

MaxOps == 2

\* three partitions: the default one, one that differs from it in namespace,
\* and one that differs from the second in kind
Configs ==
    {[Kind |-> EmptyStr, Namespace |-> EmptyStr],
     [Kind |-> Str(" "), Namespace |-> Str("u")],
     [Kind |-> Str("t"), Namespace |-> Str("u")]}

Adapters == {NewAdapterWithConfig(c) : c \in Configs}

RuleA == <<Str("a")>>
RuleAB == <<Str("a"), Str("b")>>
RuleAxB == <<Str("a"), EmptyStr, Str("b")>>
RuleAsp == <<<<"a", " ">>>>

\* the (ruleType, rule) arguments of AddPolicy and RemovePolicy
OpRules ==
    {[ptype |-> Str("p"), rule |-> RuleA],
     [ptype |-> Str("p"), rule |-> RuleAB],
     [ptype |-> Str("p"), rule |-> RuleAsp],
     [ptype |-> Str("g"), rule |-> RuleAB]}

\* the models handed to SavePolicy: model["p"]["p"].Policy and
\* model["g"]["g"].Policy
Models ==
    {[p |-> <<>>, g |-> <<>>],
     [p |-> <<RuleAB>>, g |-> <<>>],
     [p |-> <<RuleA, RuleAB>>, g |-> <<RuleAB>>],
     [p |-> <<RuleAB, RuleAB>>, g |-> <<RuleA>>],
     [p |-> <<RuleA, RuleAsp>>, g |-> <<>>],
     [p |-> <<RuleAxB>>, g |-> <<>>]}

\* the (ruleType, fieldIndex, fieldValues) arguments of RemoveFilteredPolicy
Filters ==
    {[ptype |-> Str("p"), fieldIndex |-> 0, fieldValues |-> <<Str("a")>>],
     [ptype |-> Str("p"), fieldIndex |-> 1, fieldValues |-> <<Str("b")>>],
     [ptype |-> Str("p"), fieldIndex |-> 0, fieldValues |-> <<EmptyStr, Str("b")>>],
     [ptype |-> Str("p"), fieldIndex |-> 0, fieldValues |-> <<Str("a"), EmptyStr, Str("b")>>],
     [ptype |-> Str("p"), fieldIndex |-> -1, fieldValues |-> <<Str("b"), Str("a")>>],
     [ptype |-> Str("p"), fieldIndex |-> 5, fieldValues |-> <<EmptyStr, Str("b")>>],
     [ptype |-> Str("g"), fieldIndex |-> 0, fieldValues |-> <<>>],
     [ptype |-> Str("g"), fieldIndex |-> 1, fieldValues |-> <<Str("a")>>]}

NoModel == [p |-> <<>>, g |-> <<>>]

NoAdapter == [config |-> [Kind |-> EmptyStr, Namespace |-> EmptyStr]]

NoOp ==
    [op |-> "none", a |-> NoAdapter, ptype |-> EmptyStr, rule |-> <<>>,
     model |-> NoModel, fieldIndex |-> 0, fieldValues |-> <<>>,
     fault |-> "none", outcome |-> "valid", err |-> FALSE,
     again |-> FALSE, removed |-> 0, result |-> <<>>]

IdlePure ==
    /\ phase = "idle"
    /\ cin = [ptype |-> EmptyStr, rule |-> <<>>]
    /\ line = NoLine
    /\ name = EmptyStr
    /\ loaded = NoLoaded
    /\ selector = NoSelector

NumSavers == 2

Savers == 1..NumSavers

NoCall == [pc |-> "idle", model |-> NoModel, keys |-> {}, err |-> FALSE]

IdleConc ==
    /\ calls = [p \in Savers |-> NoCall]
    /\ store0 = {}

Init ==
    /\ IdlePure
    /\ IdleConc
    /\ store = {}
    /\ lastOp = NoOp
    /\ nops = 0

\* the call op has returned: what the ghost lastOp records of it
Returned(op, st) ==
    /\ nops' = nops + 1
    /\ store' = st
    /\ lastOp' = [op EXCEPT
            !.again = /\ ~lastOp.err /\ ~op.err
                      /\ [lastOp EXCEPT !.again = FALSE, !.removed = 0, !.result = <<>>]
                           = [op EXCEPT !.again = FALSE, !.removed = 0, !.result = <<>>],
            !.removed = Cardinality(store \ st)]
    /\ UNCHANGED pureVars
    /\ UNCHANGED concVars

DoLoadPolicy(a, fault) ==
    /\ nops < MaxOps
    /\ Returned([NoOp EXCEPT !.op = "load", !.a = a, !.fault = fault,
                          !.err = fault # "none",
                          !.result = IF fault = "none" THEN LoadPolicy(a, store) ELSE <<>>],
             store)

DoSavePolicy(a, model, fault, n) ==
    /\ nops < MaxOps
    /\ Returned([NoOp EXCEPT !.op = "save", !.a = a, !.model = model, !.fault = fault,
                          !.err = fault # "none"],
             SavePolicy(a, model, fault, n, store))

DoAddPolicy(a, ptype, rule, fault) ==
    /\ nops < MaxOps
    /\ Returned([NoOp EXCEPT !.op = "add", !.a = a, !.ptype = ptype, !.rule = rule,
                          !.fault = fault, !.err = fault # "none"],
             AddPolicy(a, ptype, rule, fault, store))

DoRemovePolicy(a, ptype, rule, fault, outcome) ==
    /\ nops < MaxOps
    /\ Returned([NoOp EXCEPT !.op = "remove", !.a = a, !.ptype = ptype, !.rule = rule,
                          !.fault = fault, !.outcome = outcome,
                          !.err = fault # "none" \/ outcome = "reject"],
             RemovePolicy(a, ptype, rule, fault, outcome, store))

DoRemoveFilteredPolicy(a, ptype, fieldIndex, fieldValues, fault, done) ==
    /\ nops < MaxOps
    /\ Returned([NoOp EXCEPT !.op = "filtered", !.a = a, !.ptype = ptype,
                          !.fieldIndex = fieldIndex, !.fieldValues = fieldValues,
                          !.fault = fault,
                          !.err = removeFilteredPolicyErr(fault) # "nil"],
             RemoveFilteredPolicy(a, ptype, fieldIndex, fieldValues, fault, done, store))

Load == \E a \in Adapters, fault \in {"none", "getall"} : DoLoadPolicy(a, fault)

Save ==
    \E a \in Adapters, model \in Models, fault \in {"none", "getall", "delete", "put", "commit"} :
        \E n \in IF fault = "put" THEN 1..Len(saveLines(model)) ELSE {0} :
            DoSavePolicy(a, model, fault, n)

Add ==
    \E a \in Adapters, r \in OpRules, fault \in {"none", "put"} :
        DoAddPolicy(a, r.ptype, r.rule, fault)

Remove ==
    \E a \in Adapters, r \in OpRules, fault \in {"none", "delete"} :
        \E outcome \in keyOutcomes(removeKey(a, savePolicyLine(r.ptype, r.rule))) :
            (fault = "none" \/ outcome \in {"valid", "root"})
            /\ DoRemovePolicy(a, r.ptype, r.rule, fault, outcome)

RemoveFiltered ==
    \E a \in Adapters, f \in Filters, fault \in {"none", "getall", "notfound", "delete"} :
        LET keys == {e.key : e \in filteredMatches(a, f.ptype, f.fieldIndex,
                                                   f.fieldValues, store)} IN
        /\ fault = "notfound" => keys = {}
        /\ \E done \in IF fault = "delete" THEN SUBSET keys ELSE {{}} :
              DoRemoveFilteredPolicy(a, f.ptype, f.fieldIndex, f.fieldValues, fault, done)

Next == Load \/ Save \/ Add \/ Remove \/ RemoveFiltered

Spec == Init /\ [][Next]_vars

-----------------------------------------------------------------------------
(* Claims about the adapter's operations, under Spec *)

\* the rules of the "p" and "g" assertions of a model, as LoadPolicy files them
modelRules(model) ==
    {[sec |-> Str("p"), key |-> Str("p"), tokens |-> model.p[i]] : i \in 1..Len(model.p)}
    \cup {[sec |-> Str("g"), key |-> Str("g"), tokens |-> model.g[i]] : i \in 1..Len(model.g)}

\* every rule has at most six fields, none of them empty, and rules that
\* differ have different identities
cleanModel(model) ==
    /\ \A r \in modelRules(model) :
          /\ Len(r.tokens) <= NumSlots
          /\ \A i \in 1..Len(r.tokens) : r.tokens[i] # EmptyStr
    /\ \A r1, r2 \in modelRules(model) :
          r1 # r2 => String(savePolicyLine(r1.key, r1.tokens))
                        # String(savePolicyLine(r2.key, r2.tokens))

\* C1: a SavePolicy that fails (at the keys-only fetch, at the transactional
\* delete, at any transactional put, or at the commit) leaves the store as it
\* was before the call.
C1_FailedSaveChangesNothing ==
    [][(lastOp'.op = "save" /\ lastOp'.err) => store' = store]_vars

\* a SavePolicy that failed at a put, after deletes and a put were buffered, on
\* a partition whose records differ from the ones the model asks for
C1_Witness ==
    /\ lastOp.op = "save"
    /\ lastOp.fault = "put"
    /\ Len(saveLines(lastOp.model)) >= 2
    /\ Partition(lastOp.a, store) # {}
    /\ DOMAIN LoadPolicy(lastOp.a, store) # modelRules(lastOp.model)

\* C3 as stated: after a successful SavePolicy(model), LoadPolicy yields exactly
\* the rules of the model's "p" and "g" assertions, whatever the model's rules.
C3_LoadYieldsSavedRules ==
    (lastOp.op = "save" /\ ~lastOp.err)
    => DOMAIN LoadPolicy(lastOp.a, store) = modelRules(lastOp.model)

\* C3 amended: the same, for a model whose rules have at most six fields, all
\* non-empty, and pairwise different identities.
C3_LoadYieldsSavedCleanRules ==
    (lastOp.op = "save" /\ ~lastOp.err /\ cleanModel(lastOp.model))
    => DOMAIN LoadPolicy(lastOp.a, store) = modelRules(lastOp.model)

\* a successful SavePolicy of three rules that replaced an earlier record
C3_Witness ==
    /\ lastOp.op = "save"
    /\ ~lastOp.err
    /\ cleanModel(lastOp.model)
    /\ Cardinality(modelRules(lastOp.model)) = 3
    /\ lastOp.removed >= 1
    /\ DOMAIN LoadPolicy(lastOp.a, store) = modelRules(lastOp.model)

\* C4: RemovePolicy targets the key AddPolicy wrote, so that after AddPolicy
\* and then RemovePolicy of the same rule (the store failing neither call)
\* LoadPolicy no longer returns the rule.
C4_RemoveTargetsAddedKey ==
    [][(/\ lastOp.op = "add" /\ ~lastOp.err
        /\ lastOp'.op = "remove" /\ lastOp'.fault = "none"
        /\ lastOp'.a = lastOp.a
        /\ lastOp'.ptype = lastOp.ptype
        /\ lastOp'.rule = lastOp.rule)
       => LET ln == savePolicyLine(lastOp.ptype, lastOp.rule) IN
          /\ removeKey(lastOp.a, ln) = putKey(lastOp.a, ln, store)
          /\ loadPolicyLine(ln) \notin DOMAIN LoadPolicy(lastOp.a, store')]_vars

\* the records of a partition that the pattern of RemoveFilteredPolicy selects:
\* the type tag is ruleType and slot fieldIndex+i is values[i] for every i
\* with values[i] non-empty (positions outside 0..5 are no slots)
patternMatches(cr, ruleType, fieldIndex, values) ==
    /\ cr.PType = ruleType
    /\ \A i \in 0..(Len(values) - 1) :
          (values[i + 1] # EmptyStr /\ fieldIndex + i \in 0..(NumSlots - 1))
          => slot(cr, fieldIndex + i) = values[i + 1]

\* C5: a successful RemoveFilteredPolicy removes from the partition exactly
\* the records its pattern selects and changes nothing else.
C5_FilteredRemovesExactlyMatches ==
    [][(lastOp'.op = "filtered" /\ ~lastOp'.err)
       => store' = store \ {e \in Partition(lastOp'.a, store) :
                              patternMatches(e.props, lastOp'.ptype,
                                             lastOp'.fieldIndex, lastOp'.fieldValues)}]_vars

\* a filter on slot 1 that removed one record of three
C5_Witness ==
    /\ lastOp.op = "filtered"
    /\ ~lastOp.err
    /\ lastOp.fieldIndex = 1
    /\ lastOp.removed = 1
    /\ Cardinality(Partition(lastOp.a, store)) = 2

\* C8: after a successful AddPolicy of a rule, the first or a repeated one, the
\* partition holds exactly one record for the rule, under the key derived from
\* it, and LoadPolicy returns the rule once.
C8_AddIsUpsert ==
    (lastOp.op = "add" /\ ~lastOp.err)
    => LET ln == savePolicyLine(lastOp.ptype, lastOp.rule)
           part == Partition(lastOp.a, store) IN
       /\ Cardinality({e \in part : e.props = ln}) = 1
       /\ [key |-> wireKey(putKey(lastOp.a, ln, {}), "valid"), props |-> ln] \in part
       /\ LoadPolicy(lastOp.a, store)[loadPolicyLine(ln)] = 1

\* the same AddPolicy made twice in a row
C8_Witness ==
    /\ lastOp.op = "add"
    /\ lastOp.again
    /\ Cardinality(Partition(lastOp.a, store)) = 1
    /\ LoadPolicy(lastOp.a, store)[loadPolicyLine(savePolicyLine(lastOp.ptype, lastOp.rule))] = 1

C11_NoMatchIsSuccess ==
    [][lastOp'.op = "filtered"
       => LET matched == {e \in Partition(lastOp'.a, store) :
                             patternMatches(e.props, lastOp'.ptype,
                                            lastOp'.fieldIndex, lastOp'.fieldValues)} IN
          /\ (matched = {} /\ lastOp'.fault \in {"none", "notfound"})
                => (~lastOp'.err /\ store' = store)
          /\ lastOp'.fault = "notfound" => (~lastOp'.err /\ store' = store)
          /\ lastOp'.fault \in {"getall", "delete"} => lastOp'.err]_vars

\* a fetch that reported not-found on a partition holding records, none of
\* them matching the pattern
C11_Witness ==
    /\ lastOp.op = "filtered"
    /\ lastOp.fault = "notfound"
    /\ ~lastOp.err
    /\ lastOp.removed = 0
    /\ Partition(lastOp.a, store) # {}
    /\ filteredMatches(lastOp.a, lastOp.ptype, lastOp.fieldIndex,
                       lastOp.fieldValues, store) = {}

\* C13: an AddPolicy or RemovePolicy, successful or failed, leaves every record
\* of its partition other than the one under the key of its (ruleType, rule)
\* as it was, present or absent, and changes the record of at most one key.
C13_AddRemoveChangeOneRecord ==
    [][lastOp'.op \in {"add", "remove"}
       => LET a  == lastOp'.a
              ln == savePolicyLine(lastOp'.ptype, lastOp'.rule)
              k  == wireKey(putKey(a, ln, store), "valid") IN
          /\ \A e \in Partition(a, store) \cup Partition(a, store') :
                e.key # k => (e \in store <=> e \in store')
          /\ Cardinality({e.key : e \in (store \ store') \cup (store' \ store)}) <= 1]_vars

\* a RemovePolicy that removed its record from a partition and left another
\* record there
C13_Witness ==
    /\ lastOp.op = "remove"
    /\ ~lastOp.err
    /\ lastOp.removed = 1
    /\ Partition(lastOp.a, store) # {}
    /\ loadPolicyLine(savePolicyLine(lastOp.ptype, lastOp.rule))
          \notin DOMAIN LoadPolicy(lastOp.a, store)

\* C14: storage keys separate distinct rules.  Two rules of a saved model get
\* the same identity only if they decode to the same rule type and field list,
\* and a successful SavePolicy of a model with n pairwise different rules
\* leaves n records in the partition.
C14_KeysSeparateRules ==
    (lastOp.op = "save" /\ ~lastOp.err)
    => LET rs == modelRules(lastOp.model) IN
       /\ \A r1, r2 \in rs :
             String(savePolicyLine(r1.key, r1.tokens))
                 = String(savePolicyLine(r2.key, r2.tokens))
             => loadPolicyLine(savePolicyLine(r1.key, r1.tokens))
                    = loadPolicyLine(savePolicyLine(r2.key, r2.tokens))
       /\ Cardinality(Partition(lastOp.a, store)) = Cardinality(rs)

-----------------------------------------------------------------------------
(* Concurrent SavePolicy calls on one partition.  A call first fetches the   *)
(* existing keys, outside any transaction, and later runs its transaction,   *)
(* which the service commits as one step or not at all.                      *)

\* the adapter whose partition the concurrent calls share
SharedAdapter == NewAdapterWithConfig([Kind |-> EmptyStr, Namespace |-> Str("u")])

\* the complete record set SavePolicy(model) asks for
desiredStore(a, model) == SavePolicy(a, model, "none", 0, {})

InitConc ==
    /\ IdlePure
    /\ lastOp = NoOp
    /\ nops = 0
    /\ calls = [p \in Savers |-> NoCall]
    /\ \E m \in Models : store = desiredStore(SharedAdapter, m)
    /\ store0 = store

\* SavePolicy up to the transaction: the keys-only GetAll and the lines
SaveFetch(p, model, fault) ==
    /\ calls[p].pc = "idle"
    /\ calls' = [calls EXCEPT ![p] =
                    IF fault = "getall"
                    THEN [pc |-> "done", model |-> model, keys |-> {}, err |-> TRUE]
                    ELSE [pc |-> "fetched", model |-> model,
                          keys |-> saveKeys(SharedAdapter, store), err |-> FALSE]]
    /\ UNCHANGED <<store, store0, lastOp, nops>>
    /\ UNCHANGED pureVars

\* SavePolicy's RunInTransaction: DeleteMulti of the keys fetched earlier, the
\* puts, and the commit
SaveTransaction(p, fault, n) ==
    /\ calls[p].pc = "fetched"
    /\ LET lines == saveLines(calls[p].model)
           buffered ==
               CASE fault = "delete" -> <<>>
                 [] fault = "put"    ->
                        saveBuffered(SharedAdapter, calls[p].keys, lines, n - 1, store)
                 [] OTHER            ->
                        saveBuffered(SharedAdapter, calls[p].keys, lines, Len(lines), store) IN
       store' = RunInTransaction(store, buffered, fault # "none")
    /\ calls' = [calls EXCEPT ![p].pc = "done", ![p].err = fault # "none"]
    /\ UNCHANGED <<store0, lastOp, nops>>
    /\ UNCHANGED pureVars

Fetch ==
    \E p \in Savers, model \in Models, fault \in {"none", "getall"} :
        SaveFetch(p, model, fault)

Transaction ==
    \E p \in Savers, fault \in {"none", "delete", "put", "commit"} :
        \E n \in IF fault = "put" THEN 1..Len(saveLines(calls[p].model)) ELSE {0} :
            SaveTransaction(p, fault, n)

NextConc == Fetch \/ Transaction

SpecConc == InitConc /\ [][NextConc]_vars

\* C2: once every concurrent SavePolicy has completed or failed, the partition
\* holds the records it held before them or the complete desired record set of
\* one of them.
C2_NoMixOfSaves ==
    (\A p \in Savers : calls[p].pc = "done")
    => \/ store = store0
       \/ \E p \in Savers : store = desiredStore(SharedAdapter, calls[p].model)

-----------------------------------------------------------------------------
(* One SavePolicy and one AddPolicy running concurrently on a partition, on  *)
(* each of two partitions.  AddPolicy is one db.Put; SavePolicy fetches the  *)
(* keys, then runs its transaction.                                          *)

\* the adapters on whose partitions a SavePolicy and an AddPolicy meet
PairAdapters ==
    {NewAdapterWithConfig([Kind |-> EmptyStr, Namespace |-> EmptyStr]),
     NewAdapterWithConfig([Kind |-> EmptyStr, Namespace |-> Str("u")])}

\* the rule r handed to AddPolicy
AddedRule == [ptype |-> Str("p"), rule |-> RuleA]

\* AddPolicy not yet called; during is the position SavePolicy was at when the
\* put was made
NoAdd == [pc |-> "idle", err |-> FALSE, during |-> "idle"]

\* a transaction that deletes the keys the partition holds when it commits
txDeleteKeysFresh(fetched, a, st) == saveKeys(a, st)

\* the keys SavePolicy's transaction deletes: the ones fetched before it began
txDeleteKeys(fetched, a, st) == fetched

InitAddSave ==
    /\ IdlePure
    /\ lastOp = NoOp
    /\ nops = 0
    /\ calls = [a \in PairAdapters |-> [save |-> NoCall, add |-> NoAdd]]
    /\ \E m \in Models :
          store = UNION {desiredStore(a, m) : a \in PairAdapters}
    /\ store0 = store

\* SavePolicy up to the transaction: the keys-only GetAll and the lines
SavePolicyFetch(a, model, fault) ==
    /\ calls[a].save.pc = "idle"
    /\ calls' = [calls EXCEPT ![a].save =
                    IF fault = "getall"
                    THEN [pc |-> "done", model |-> model, keys |-> {}, err |-> TRUE]
                    ELSE [pc |-> "fetched", model |-> model,
                          keys |-> saveKeys(a, store), err |-> FALSE]]
    /\ UNCHANGED <<store, store0, lastOp, nops>>
    /\ UNCHANGED pureVars

\* SavePolicy's RunInTransaction: DeleteMulti of the keys, the puts, the commit
SavePolicyTransaction(a, fault, n) ==
    /\ calls[a].save.pc = "fetched"
    /\ LET lines == saveLines(calls[a].save.model)
           keys  == txDeleteKeys(calls[a].save.keys, a, store)
           buffered ==
               CASE fault = "delete" -> <<>>
                 [] fault = "put"    -> saveBuffered(a, keys, lines, n - 1, store)
                 [] OTHER            -> saveBuffered(a, keys, lines, Len(lines), store) IN
       store' = RunInTransaction(store, buffered, fault # "none")
    /\ calls' = [calls EXCEPT ![a].save.pc = "done", ![a].save.err = fault # "none"]
    /\ UNCHANGED <<store0, lastOp, nops>>
    /\ UNCHANGED pureVars

\* AddPolicy of r: its db.Put
AddPolicyPut(a, fault) ==
    /\ calls[a].add.pc = "idle"
    /\ store' = AddPolicy(a, AddedRule.ptype, AddedRule.rule, fault, store)
    /\ calls' = [calls EXCEPT ![a].add =
                    [pc |-> "done", err |-> fault # "none", during |-> calls[a].save.pc]]
    /\ UNCHANGED <<store0, lastOp, nops>>
    /\ UNCHANGED pureVars

FetchBesideAdd ==
    \E a \in PairAdapters, model \in Models, fault \in {"none", "getall"} :
        SavePolicyFetch(a, model, fault)

TransactionBesideAdd ==
    \E a \in PairAdapters, fault \in {"none", "delete", "put", "commit"} :
        \E n \in IF fault = "put" THEN 1..Len(saveLines(calls[a].save.model)) ELSE {0} :
            SavePolicyTransaction(a, fault, n)

AddBesideSave == \E a \in PairAdapters, fault \in {"none", "put"} : AddPolicyPut(a, fault)

NextAddSave == FetchBesideAdd \/ TransactionBesideAdd \/ AddBesideSave

SpecAddSave == InitAddSave /\ [][NextAddSave]_vars

\* SavePolicy and AddPolicy have both returned success on a's partition, and
\* the saved model holds neither r nor a rule with r's identity
bothSucceeded(a) ==
    /\ calls[a].save.pc = "done" /\ ~calls[a].save.err
    /\ calls[a].add.pc = "done" /\ ~calls[a].add.err
    /\ \A ln \in {saveLines(calls[a].save.model)[i] :
                      i \in 1..Len(saveLines(calls[a].save.model))} :
          String(ln) # String(savePolicyLine(AddedRule.ptype, AddedRule.rule))

\* LoadPolicy on a's partition returns r
rLoaded(a) ==
    loadPolicyLine(savePolicyLine(AddedRule.ptype, AddedRule.rule))
        \in DOMAIN LoadPolicy(a, store)

\* C12: AddPolicy(r) is not isolated from a concurrent SavePolicy whose model
\* lacks r.  When both have returned success, r is absent from the partition
\* exactly if the put was made before the transaction and r's key was among
\* the keys SavePolicy had fetched or went on to fetch (so always when the put
\* preceded the fetch), and is present otherwise.
C12_AddLostOrKept ==
    \A a \in PairAdapters :
        bothSucceeded(a)
        => LET k == wireKey(putKey(a, savePolicyLine(AddedRule.ptype, AddedRule.rule),
                                   store), "valid") IN
           /\ rLoaded(a) <=> ~(calls[a].add.during # "done" /\ k \in calls[a].save.keys)
           /\ calls[a].add.during = "idle" => ~rLoaded(a)

\* on one partition the put preceded the fetch and r is absent after both
\* calls; on the other the put fell between the fetch and the transaction and
\* r is present after both
C12_Witness ==
    \E a, b \in PairAdapters :
        /\ a # b
        /\ bothSucceeded(a) /\ bothSucceeded(b)
        /\ calls[a].add.during = "idle" /\ ~rLoaded(a)
        /\ calls[b].add.during = "fetched" /\ rLoaded(b)

-----------------------------------------------------------------------------
(* Inputs of the codec and of the filter mapper *)

MaxRuleLen == 7
MaxValues == 8
MaxNegIndex == 2
MaxFieldIndex == 7

\* field values: "", "a", " " and "a "
FieldVals == {EmptyStr, Str("a"), Str(" "), <<"a", " ">>}

\* rule types of the "p" and "g" sections
PTypes == {Str("p"), Str("g")}

\* filter values: "", "a" and "b"
FilterVals == {EmptyStr, Str("a"), Str("b")}

SeqsUpTo(S, n) == UNION {[1..k -> S] : k \in 0..n}

InitPure ==
    /\ \/ /\ phase = "codec"
          /\ cin \in [ptype : PTypes, rule : SeqsUpTo(FieldVals, MaxRuleLen)]
       \/ /\ phase = "filter"
          /\ cin \in [ptype : PTypes,
                      fieldIndex : (0 - MaxNegIndex)..MaxFieldIndex,
                      fieldValues : SeqsUpTo(FilterVals, MaxValues)]
    /\ line = NoLine
    /\ name = EmptyStr
    /\ loaded = NoLoaded
    /\ selector = NoSelector
    /\ IdleConc
    /\ store = {}
    /\ lastOp = NoOp
    /\ nops = 0

\* encode: savePolicyLine, then the key name line.String()
Encode ==
    /\ phase = "codec"
    /\ line' = savePolicyLine(cin.ptype, cin.rule)
    /\ name' = String(line')
    /\ phase' = "encoded"
    /\ UNCHANGED <<cin, loaded, selector>>
    /\ UNCHANGED storeVars
    /\ UNCHANGED concVars

\* decode: loadPolicyLine on the stored record
Decode ==
    /\ phase = "encoded"
    /\ loaded' = loadPolicyLine(line)
    /\ phase' = "decoded"
    /\ UNCHANGED <<cin, line, name, selector>>
    /\ UNCHANGED storeVars
    /\ UNCHANGED concVars

\* the selector-building part of RemoveFilteredPolicy
BuildFilters ==
    /\ phase = "filter"
    /\ selector' = buildSelector(cin.ptype, cin.fieldIndex, cin.fieldValues)
    /\ phase' = "mapped"
    /\ UNCHANGED <<cin, line, name, loaded>>
    /\ UNCHANGED storeVars
    /\ UNCHANGED concVars

NextPure == Encode \/ Decode \/ BuildFilters

SpecPure == InitPure /\ [][NextPure]_vars

-----------------------------------------------------------------------------
(* Claims about the codec and the filter mapper, under SpecPure *)

RECURSIVE JoinComma(_)
JoinComma(ss) ==
    IF ss = <<>> THEN EmptyStr
    ELSE IF Len(ss) = 1 THEN ss[1]
    ELSE ss[1] \o <<",">> \o JoinComma(Tail(ss))

\* C6: the selector always holds ptype = ruleType; it holds v_p exactly for the
\* slots p in 0..5 with fieldIndex <= p < fieldIndex + len(values) whose value
\* values[p - fieldIndex] is non-empty, with that value; and no index outside
\* 0..len(values)-1 is ever read.
C6_FilterMapping ==
    phase = "mapped" =>
        LET fi == cin.fieldIndex
            fv == cin.fieldValues IN
        /\ selector.ptype = cin.ptype
        /\ \A p \in 0..(NumSlots - 1) :
              (p \in DOMAIN selector.v) <=>
                  (/\ fi <= p
                   /\ p < fi + Len(fv)
                   /\ fv[p - fi + 1] # EmptyStr)
        /\ \A p \in DOMAIN selector.v : selector.v[p] = fv[p - fi + 1]
        /\ selector.reads \subseteq 0..(Len(fv) - 1)

\* a negative fieldIndex with values reaching past slot 5: v0 and v2 are set
C6_Witness ==
    /\ phase = "mapped"
    /\ cin.fieldIndex = -1
    /\ Len(cin.fieldValues) = 8
    /\ DOMAIN selector.v = {0, 2}
    /\ selector.v[0] = Str("b")
    /\ selector.v[2] = Str("a")

\* C7: the identity of a record is its type tag followed by exactly the fields
\* decode returns, comma-joined.
C7_IdentityIsDecodedFields ==
    phase = "decoded" => name = JoinComma(<<line.PType>> \o loaded.tokens)

\* the spec's truncation example: fields ["a", "", x] give identity "<type>,a"
\* and decoded fields ["a"]
C7_TruncationExample ==
    /\ phase = "decoded"
    /\ Len(cin.rule) = 3
    /\ cin.rule[1] = Str("a")
    /\ cin.rule[2] = EmptyStr
    /\ cin.rule[3] # EmptyStr
    /\ name = cin.ptype \o <<",", "a">>
    /\ loaded.tokens = <<Str("a")>>

\* C10: decoding the record encoded from a rule type and 0 to 6 non-empty
\* fields returns the same rule type and the same fields in the same order.
C10_RoundTrip ==
    (/\ phase = "decoded"
     /\ Len(cin.rule) <= NumSlots
     /\ \A i \in 1..Len(cin.rule) : cin.rule[i] # EmptyStr)
    => /\ loaded.key = cin.ptype
       /\ loaded.tokens = cin.rule

\* six non-empty fields, one of them blank and one padded, decoded back
C10_Witness ==
    /\ phase = "decoded"
    /\ Len(cin.rule) = NumSlots
    /\ \A i \in 1..Len(cin.rule) : cin.rule[i] # EmptyStr
    /\ cin.rule[2] = Str(" ")
    /\ cin.rule[6] = <<"a", " ">>
    /\ loaded.tokens = cin.rule

====
